---- MODULE Spec2Model ----
(***************************************************************************)
(* QATracker: the story / coverage-history store (shared/schema.ts,        *)
(* DatabaseStorage) and the Express request handlers that drive it         *)
(* (server/routes.ts).  Every request runs as a process whose position is  *)
(* the repository call it is about to await; requests of different         *)
(* processes interleave at those awaits.                                   *)
(*                                                                         *)
(* Decimal columns (precision 5, scale 2) are integers in hundredths;      *)
(* numbers of a request body are integers in thousandths.                  *)
(***************************************************************************)
EXTENDS Integers, Sequences, FiniteSets, TLC

\* Number of requests the server receives in one behaviour.
MaxRequests == 3

\* Number of stories of the tables the analytics are computed from.
MaxStories == 2

\* SQL NULL / JS null and JS undefined, for numeric and for string values.
Null == -1
Undefined == -2
NullStr == "null"
UndefinedStr == "undefined"

\* The users table: id -> role.  No modelled request writes it.
users == [m1 |-> "manager", e1 |-> "engineer", r1 |-> "reviewer", r2 |-> "reviewer"]

\* Ids a verified token can carry: the users, and one id with no row.
TokenIds == DOMAIN users \cup {"u0"}

\* The concurrent request handlers.
Procs == {"p1", "p2"}

\* Values of the unique ticket_id column used by requests.
TicketIds == {"t1", "t2"}

\* Story ids a request can name (a story's id is its row number).
StoryIdInputs == 1..Cardinality(TicketIds)

\* storyStatusEnum, in its declared order.
storyStatusEnum == <<"pending", "in_review", "reviewed">>

VARIABLES
    stories,          \* the stories table, in insertion order
    coverageHistory,  \* the coverage_history table, in insertion order
    pc,               \* per process: the call a handler is about to await
    req,              \* per process: the handler's local variables
    res,              \* per process: the response sent
    nReq,             \* requests received so far; also the wall clock
    okCoverage        \* per story id: 200 responses of PATCH .../coverage

vars == <<stories, coverageHistory, pc, req, res, nReq, okCoverage>>

\* new Date() / defaultNow()
Now == nReq

----------------------------------------------------------------------------
\* Request bodies

\* POST /api/stories: insertStorySchema omits id, createdAt and updatedAt
\* and accepts every other column.  The bodies: ticketId and title only
\* (StoryForm); and with a creator, a reviewer, a status and a score.
StoryBodies ==
    {[ticketId |-> t, title |-> "T", creatorId |-> e[1], reviewerId |-> e[2],
      status |-> e[3], coverageScore |-> e[4]] :
        t \in TicketIds \cup {UndefinedStr},
        e \in {<<UndefinedStr, UndefinedStr, UndefinedStr, Undefined>>,
               <<"r1", "r1", "reviewed", 99995>>}}

\* PATCH .../coverage: score is a JSON number (thousandths), a JSON string,
\* or missing.
ScoreInputs ==
    [t : {"number"}, v : {-1000, 0, 100000, 101000}]
        \cup {[t |-> "string", v |-> 85000], [t |-> "undefined", v |-> 0]}

CommentInputs == {UndefinedStr, "c1"}

\* PATCH .../reviewer: reviewerId of the body.
ReviewerInputs == {"r1", "r2", "u0", NullStr, UndefinedStr}

----------------------------------------------------------------------------
\* Values

\* A number written to a decimal(5,2) column: rounded to two places.
ToDecimal(milli) == (milli + 5) \div 10

NoStoryData ==
    [ticketId |-> UndefinedStr, title |-> UndefinedStr, creatorId |-> UndefinedStr,
     reviewerId |-> UndefinedStr, coverageScore |-> Undefined, status |-> UndefinedStr]

NoScore == [t |-> "undefined", v |-> 0]

NoReq ==
    [route |-> "none", userId |-> UndefinedStr, storyId |-> 0,
     storyData |-> NoStoryData, reviewerId |-> UndefinedStr,
     score |-> NoScore, comments |-> UndefinedStr,
     previousScore |-> Null, applied |-> "none"]

NoStory ==
    [ticketId |-> UndefinedStr, title |-> UndefinedStr, creatorId |-> UndefinedStr,
     reviewerId |-> NullStr, coverageScore |-> Null, status |-> UndefinedStr,
     comments |-> NullStr, dateCompleted |-> Null]

\* No team statistics in a response.
NoTeam ==
    [totalStories |-> Undefined, averageCoverage |-> Undefined,
     usersBelow90 |-> Undefined, pendingReviews |-> Undefined]

NoRes ==
    [status |-> 0, message |-> "", story |-> NoStory, team |-> NoTeam, users |-> {},
     list |-> {}]

Json(status, message) == [NoRes EXCEPT !.status = status, !.message = message]

JsonStory(story) == [NoRes EXCEPT !.status = 200, !.story = story]

\* res.json(stats) of GET /api/analytics/team.
JsonTeam(stats) == [NoRes EXCEPT !.status = 200, !.team = stats]

\* res.json(stories) of the routes that list stories: the ids of the stories.
JsonStories(ids) == [NoRes EXCEPT !.status = 200, !.list = ids]

\* res.json(users) of the routes that return users with their statistics.
JsonUsers(userStats) == [NoRes EXCEPT !.status = 200, !.users = userStats]

----------------------------------------------------------------------------
\* DatabaseStorage

getUser(id) == IF id \in DOMAIN users THEN users[id] ELSE UndefinedStr

StoryExists(id) == id \in 1..Len(stories)

\* insertStorySchema.parse: ticketId, title and creatorId are required.
insertStorySchema(obj) ==
    /\ obj.ticketId # UndefinedStr
    /\ obj.title # UndefinedStr
    /\ obj.creatorId # UndefinedStr

\* Mutant of StoryInsertOk: ticket_id has no unique constraint.
StoryInsertOk_NoUnique(story) ==
    /\ story.creatorId \in DOMAIN users
    /\ story.reviewerId \in DOMAIN users \cup {UndefinedStr}

\* The constraints of an insert into stories: unique ticket_id, and the
\* creator and reviewer references.
StoryInsertOk(story) ==
    /\ \A i \in 1..Len(stories) : stories[i].ticketId # story.ticketId
    /\ story.creatorId \in DOMAIN users
    /\ story.reviewerId \in DOMAIN users \cup {UndefinedStr}

\* The row an insert produces: column defaults where the value is undefined.
createStory(story) ==
    [ticketId |-> story.ticketId,
     title |-> story.title,
     creatorId |-> story.creatorId,
     reviewerId |-> IF story.reviewerId = UndefinedStr THEN NullStr ELSE story.reviewerId,
     coverageScore |-> IF story.coverageScore = Undefined THEN Null
                       ELSE ToDecimal(story.coverageScore),
     status |-> IF story.status = UndefinedStr THEN "pending" ELSE story.status,
     comments |-> NullStr,
     dateCompleted |-> Null]

\* Mutant of assignReviewer: the assignment reopens the story, clearing
\* its score and completion timestamp.
assignReviewer_Reopens(story, reviewerId) ==
    [story EXCEPT !.reviewerId = IF reviewerId = UndefinedStr THEN @ ELSE reviewerId,
                  !.status = "in_review",
                  !.coverageScore = Null,
                  !.dateCompleted = Null]

\* updateStory for the keys assignReviewer passes; an undefined value is
\* left out of the SET clause.
assignReviewer(story, reviewerId) ==
    [story EXCEPT !.reviewerId = IF reviewerId = UndefinedStr THEN @ ELSE reviewerId,
                  !.status = "in_review"]

\* Mutant of previousScoreOf: the truthiness of a number, for which 0 is
\* false, instead of that of the column's string.
previousScoreOf_Numeric(coverageScore) ==
    IF coverageScore # Null /\ coverageScore # 0 THEN coverageScore ELSE Null

\* previousScore ? previousScore : null, on the column's string value.
previousScoreOf(coverageScore) == IF coverageScore # Null THEN coverageScore ELSE Null

\* The row updateCoverage inserts into coverage_history.
historyRecord(storyId, score, updatedById, comments, previousScore) ==
    [storyId |-> storyId,
     updatedById |-> updatedById,
     previousScore |-> previousScoreOf(previousScore),
     newScore |-> ToDecimal(score),
     comments |-> IF comments = UndefinedStr THEN NullStr ELSE comments]

\* Mutant of insertCoverageHistory: one record per story, replaced by the
\* next update of the story.
insertCoverageHistory_Upsert(history, record) ==
    IF \E i \in 1..Len(history) : history[i].storyId = record.storyId
    THEN [i \in 1..Len(history) |->
             IF history[i].storyId = record.storyId THEN record ELSE history[i]]
    ELSE Append(history, record)

\* db.insert(coverageHistory).values(...): a new row after the others.
insertCoverageHistory(history, record) == Append(history, record)

\* Mutant of updateCoverage: the status follows the 90% threshold.
updateCoverage_StatusByScore(story, score, comments) ==
    [story EXCEPT !.coverageScore = ToDecimal(score),
                  !.status = IF ToDecimal(score) >= 9000 THEN "reviewed" ELSE "in_review",
                  !.comments = IF comments = UndefinedStr THEN @ ELSE comments,
                  !.dateCompleted = Now]

\* Mutant of updateCoverage: a missing comments argument is written as NULL.
updateCoverage_ClearsComments(story, score, comments) ==
    [story EXCEPT !.coverageScore = ToDecimal(score),
                  !.status = "reviewed",
                  !.comments = IF comments = UndefinedStr THEN NullStr ELSE comments,
                  !.dateCompleted = Now]

\* Mutant of updateCoverage: the completed review releases the reviewer.
updateCoverage_Unassigns(story, score, comments) ==
    [story EXCEPT !.coverageScore = ToDecimal(score),
                  !.status = "reviewed",
                  !.reviewerId = NullStr,
                  !.comments = IF comments = UndefinedStr THEN @ ELSE comments,
                  !.dateCompleted = Now]

\* updateStory for the keys updateCoverage passes.
updateCoverage(story, score, comments) ==
    [story EXCEPT !.coverageScore = ToDecimal(score),
                  !.status = "reviewed",
                  !.comments = IF comments = UndefinedStr THEN @ ELSE comments,
                  !.dateCompleted = Now]

----------------------------------------------------------------------------
\* DatabaseStorage: the listings, as the ids of the stories returned.  Every
\* story has a creator, so the inner join with users drops none.

getAllStories == 1..Len(stories)

getStoriesByCreator(creatorId) == {i \in 1..Len(stories) : stories[i].creatorId = creatorId}

\* Mutant of getStoriesByReviewer: the stories without a reviewer are
\* listed too.
getStoriesByReviewer_OrUnassigned(reviewerId) ==
    {i \in 1..Len(stories) : stories[i].reviewerId \in {reviewerId, NullStr}}

getStoriesByReviewer(reviewerId) ==
    {i \in 1..Len(stories) : stories[i].reviewerId = reviewerId}

----------------------------------------------------------------------------
\* DatabaseStorage: analytics.  An average is an integer in ten-thousandths
\* of a percent (two more places than a score; PostgreSQL keeps more).

\* A percentage as an average.
Percent(n) == n * 10000

RECURSIVE Sum(_)
Sum(seq) == IF seq = <<>> THEN 0 ELSE Head(seq) + Sum(Tail(seq))

\* The coverage_score column of the rows.
Scores(rows) == [i \in 1..Len(rows) |-> rows[i].coverageScore]

\* count(stories.id): the rows of the group.
count(rows) == Len(rows)

\* Mutant of avg: a row without a score counts as a score of zero.
avg_NullAsZero(scores) ==
    IF Len(scores) = 0 THEN Null
    ELSE LET present == SelectSeq(scores, LAMBDA x : x # Null)
         IN  (2 * 100 * Sum(present) + Len(scores)) \div (2 * Len(scores))

\* SQL avg: the rounded mean of the values that are not NULL; NULL when
\* there is none.
avg(scores) ==
    LET present == SelectSeq(scores, LAMBDA x : x # Null)
    IN  IF Len(present) = 0 THEN Null
        ELSE (2 * 100 * Sum(present) + Len(present)) \div (2 * Len(present))

\* averageCoverage ? parseFloat(averageCoverage) : 0
averageCoverageOf(average) == IF average # Null THEN average ELSE 0

\* users left join stories on creator_id, for one user.
storiesOfCreator(userId) == SelectSeq(stories, LAMBDA story : story.creatorId = userId)

\* getUserStats for a user that exists.
getUserStats(userId) ==
    LET rows == storiesOfCreator(userId)
        averageCoverage == averageCoverageOf(avg(Scores(rows)))
    IN  [id |-> userId,
         role |-> users[userId],
         totalStories |-> count(rows),
         averageCoverage |-> averageCoverage,
         status |-> IF averageCoverage >= Percent(90) THEN "pass" ELSE "fail"]

\* getAllUsersWithStats: one element per row of users.
getAllUsersWithStats ==
    {LET rows == storiesOfCreator(userId)
         average == avg(Scores(rows))
     IN  [id |-> userId,
          role |-> users[userId],
          totalStories |-> count(rows),
          averageCoverage |-> averageCoverageOf(average),
          status |-> IF average # Null /\ average >= Percent(90) THEN "pass" ELSE "fail"] :
        userId \in DOMAIN users}

\* Mutant of usersBelow90: users without stories are not counted.
usersBelow90_WithStories(userStats) ==
    Cardinality({user \in userStats :
                    user.totalStories > 0 /\ user.averageCoverage < Percent(90)})

\* userStats.filter((user) => user.averageCoverage < 90).length
usersBelow90(userStats) ==
    Cardinality({user \in userStats : user.averageCoverage < Percent(90)})

\* Mutant of pendingReviews: the stories that have no score.
pendingReviews_Unscored(rows) == Len(SelectSeq(rows, LAMBDA story : story.coverageScore = Null))

\* count(stories.id) where status = 'pending'
pendingReviews(rows) == count(SelectSeq(rows, LAMBDA story : story.status = "pending"))

getTeamStats ==
    [totalStories |-> count(stories),
     averageCoverage |-> averageCoverageOf(avg(Scores(stories))),
     usersBelow90 |-> usersBelow90(getAllUsersWithStats),
     pendingReviews |-> pendingReviews(stories)]

----------------------------------------------------------------------------
\* Access checks and validation of the routes

\* Mutant of canViewTeamAnalytics: engineers may view the analytics too.
canViewTeamAnalytics_OrEngineer(role) == role = "manager" \/ role = "engineer"

\* GET /api/analytics/team and GET /api/analytics/users.
canViewTeamAnalytics(role) == role = "manager"

\* GET /api/users.
canListAllUsers(role) == role = "manager"

\* Mutant of canCreateStory: every role may create.
canCreateStory_AnyRole(role) == role \in {"manager", "engineer", "reviewer"}

canCreateStory(role) == role = "manager" \/ role = "engineer"

\* Mutant of canAssignReviewer: reviewers may assign too.
canAssignReviewer_OrReviewer(role) == role = "manager" \/ role = "reviewer"

canAssignReviewer(role) == role = "manager"

\* Mutant of canEdit: the creator of a story may edit its coverage.
canEdit_OrCreator(role, story, userId) ==
    \/ role = "manager"
    \/ role = "reviewer" /\ story.reviewerId = userId
    \/ story.creatorId = userId

canEdit(role, story, userId) ==
    role = "manager" \/ (role = "reviewer" /\ story.reviewerId = userId)

\* Mutant of notAuthorized: the message names the check that failed.
notAuthorized_ByCause(role, story, userId) ==
    IF role # "reviewer"
    THEN Json(403, "Role not allowed to update coverage")
    ELSE Json(403, "Not the reviewer of this story")

\* The response to a coverage request that canEdit denies.
notAuthorized(role, story, userId) == Json(403, "Not authorized to update coverage")

\* Mutant of validScore: the range is checked, the type is not.
validScore_RangeOnly(score) == score.v >= 0 /\ score.v <= 100000

\* Mutant of validScore: the bounds 0 and 100 are excluded.
validScore_Exclusive(score) == score.t = "number" /\ score.v > 0 /\ score.v < 100000

validScore(score) == score.t = "number" /\ score.v >= 0 /\ score.v <= 100000

----------------------------------------------------------------------------
Init ==
    /\ stories = <<>>
    /\ coverageHistory = <<>>
    /\ pc = [p \in Procs |-> "idle"]
    /\ req = [p \in Procs |-> NoReq]
    /\ res = [p \in Procs |-> NoRes]
    /\ nReq = 0
    /\ okCoverage = [s \in StoryIdInputs |-> 0]

\* A handler runs from one await to the next without interruption (one
\* thread, one event loop): a handler that responds has returned before any
\* other handler takes a step.
Responding == \E p \in Procs : pc[p] = "done"

\* A request arrives and is given to the first idle handler.
Receive(p) ==
    /\ ~Responding
    /\ pc[p] = "idle"
    /\ p = "p1" \/ pc["p1"] # "idle"
    /\ nReq < MaxRequests
    /\ nReq' = nReq + 1

\* res.status(...).json(...) / res.json(...): the handler returns.  What is
\* kept with the response is what identifies the request: the route, the
\* acting user and the story; the reviewer of an assignment that was made;
\* the score of a request that reached the score validation; the ticket id
\* of a creation that failed.
Send(p, response, locals) ==
    /\ pc' = [pc EXCEPT ![p] = "done"]
    /\ res' = [res EXCEPT ![p] = response]
    /\ req' = [req EXCEPT ![p] =
           [NoReq EXCEPT !.route = locals.route,
                         !.userId = locals.userId,
                         !.storyId = locals.storyId,
                         !.applied = locals.applied,
                         !.reviewerId = IF locals.applied = "both"
                                        THEN locals.reviewerId ELSE UndefinedStr,
                         !.storyData = IF response.status = 400
                                       THEN locals.storyData ELSE NoStoryData,
                         !.score = IF response.status = 200
                                      \/ response.message = "Score must be between 0 and 100"
                                   THEN locals.score ELSE NoScore]]

\* The handler awaits the next repository call.
Await(p, call, locals) ==
    /\ pc' = [pc EXCEPT ![p] = call]
    /\ req' = [req EXCEPT ![p] = locals]
    /\ UNCHANGED res

\* Mutant of storyData: the body's creatorId, when it has one, is kept.
storyData_BodyWins(body, userId) ==
    IF body.creatorId # UndefinedStr THEN body ELSE [body EXCEPT !.creatorId = userId]

\* { ...req.body, creatorId: userId }
storyData(body, userId) == [body EXCEPT !.creatorId = userId]

----------------------------------------------------------------------------
\* POST /api/stories.  getUser reads only the users table, which no request
\* writes, so the handler's one access to shared state is the insert: the
\* whole handler is one step.
PostStories(p, userId, body) ==
    /\ Receive(p)
    /\ LET user == getUser(userId)
           obj == storyData(body, userId)
           locals == [NoReq EXCEPT !.route = "createStory", !.userId = userId,
                                   !.storyData = [NoStoryData EXCEPT
                                                     !.ticketId = body.ticketId]]
       IN  IF user = UndefinedStr \/ ~canCreateStory(user)
           THEN /\ Send(p, Json(403, "Not authorized to create stories"), locals)
                /\ UNCHANGED stories
           ELSE IF ~insertStorySchema(obj) \/ ~StoryInsertOk(obj)
           THEN /\ Send(p, Json(400, "Failed to create story"), locals)
                /\ UNCHANGED stories
           ELSE /\ stories' = Append(stories, createStory(obj))
                /\ Send(p, JsonStory(createStory(obj)),
                        [locals EXCEPT !.storyId = Len(stories) + 1,
                                       !.applied = "both"])
    /\ UNCHANGED <<coverageHistory, okCoverage>>

----------------------------------------------------------------------------
\* PATCH /api/stories/:id/reviewer.  The handler's one access to shared
\* state is the update of storage.assignReviewer: one step.  An update that
\* matches no row returns undefined, which is sent with status 200.
PatchReviewer(p, userId, storyId, reviewerId) ==
    /\ Receive(p)
    /\ LET user == getUser(userId)
           locals == [NoReq EXCEPT !.route = "assignReviewer", !.userId = userId,
                                   !.storyId = storyId, !.reviewerId = reviewerId]
       IN  IF user = UndefinedStr \/ ~canAssignReviewer(user)
           THEN /\ Send(p, Json(403, "Not authorized to assign reviewers"), locals)
                /\ UNCHANGED stories
           ELSE IF ~StoryExists(storyId)
           THEN /\ Send(p, Json(200, ""), locals)
                /\ UNCHANGED stories
           ELSE IF reviewerId \notin DOMAIN users \cup {NullStr, UndefinedStr}
           THEN /\ Send(p, Json(400, "Failed to assign reviewer"), locals)
                /\ UNCHANGED stories
           ELSE /\ stories' = [stories EXCEPT ![storyId] = assignReviewer(@, reviewerId)]
                /\ Send(p, JsonStory(assignReviewer(stories[storyId], reviewerId)),
                        [locals EXCEPT !.applied = "both"])
    /\ UNCHANGED <<coverageHistory, okCoverage>>

----------------------------------------------------------------------------
\* PATCH /api/stories/:id/coverage, up to the call of storage.updateCoverage:
\* getUser, getStory, the permission check and the score validation.
\* getStory is the handler's first access to shared state.
\* Mutant of PatchCoverage: the score is validated first, before the story
\* is read and the permission checked.
PatchCoverage_ScoreFirst(p, userId, storyId, score, comments) ==
    /\ Receive(p)
    /\ LET user == getUser(userId)
           locals == [NoReq EXCEPT !.route = "updateCoverage", !.userId = userId,
                                   !.storyId = storyId, !.score = score,
                                   !.comments = comments]
       IN  IF user = UndefinedStr
           THEN Send(p, Json(404, "User not found"), locals)
           ELSE IF ~validScore(score)
           THEN Send(p, Json(400, "Score must be between 0 and 100"), locals)
           ELSE IF ~StoryExists(storyId)
           THEN Send(p, Json(404, "Story not found"), locals)
           ELSE IF ~canEdit(user, stories[storyId], userId)
           THEN Send(p, notAuthorized(user, stories[storyId], userId), locals)
           ELSE Await(p, "select", locals)
    /\ UNCHANGED <<stories, coverageHistory, okCoverage>>

PatchCoverage(p, userId, storyId, score, comments) ==
    /\ Receive(p)
    /\ LET user == getUser(userId)
           locals == [NoReq EXCEPT !.route = "updateCoverage", !.userId = userId,
                                   !.storyId = storyId, !.score = score,
                                   !.comments = comments]
       IN  IF user = UndefinedStr
           THEN Send(p, Json(404, "User not found"), locals)
           ELSE IF ~StoryExists(storyId)
           THEN Send(p, Json(404, "Story not found"), locals)
           ELSE IF ~canEdit(user, stories[storyId], userId)
           THEN Send(p, notAuthorized(user, stories[storyId], userId), locals)
           ELSE IF ~validScore(score)
           THEN Send(p, Json(400, "Score must be between 0 and 100"), locals)
           ELSE Await(p, "select", locals)
    /\ UNCHANGED <<stories, coverageHistory, okCoverage>>

\* storage.updateCoverage: the select of the current story returns.
UpdateCoverageSelect(p) ==
    /\ ~Responding
    /\ pc[p] = "select"
    /\ LET id == req[p].storyId IN
       IF ~StoryExists(id)
       THEN Send(p, Json(400, "Failed to update coverage"), req[p])
       ELSE Await(p, "insert", [req[p] EXCEPT !.previousScore = stories[id].coverageScore])
    /\ UNCHANGED <<stories, coverageHistory, nReq, okCoverage>>

\* storage.updateCoverage: the insert into coverage_history returns.
\* previousScore is not read again.
UpdateCoverageInsert(p) ==
    /\ ~Responding
    /\ pc[p] = "insert"
    /\ coverageHistory' = insertCoverageHistory(coverageHistory,
           historyRecord(req[p].storyId, req[p].score.v, req[p].userId,
                         req[p].comments, req[p].previousScore))
    /\ Await(p, "updateStory", [req[p] EXCEPT !.applied = "history",
                                               !.previousScore = Null])
    /\ UNCHANGED <<stories, nReq, okCoverage>>

\* storage.updateCoverage: updateStory returns; the handler responds.
UpdateCoverageUpdate(p) ==
    /\ ~Responding
    /\ pc[p] = "updateStory"
    /\ LET id == req[p].storyId
           story == updateCoverage(stories[id], req[p].score.v, req[p].comments)
       IN  /\ stories' = [stories EXCEPT ![id] = story]
           /\ okCoverage' = [okCoverage EXCEPT ![id] = @ + 1]
           /\ Send(p, JsonStory(story), [req[p] EXCEPT !.applied = "both"])
    /\ UNCHANGED <<coverageHistory, nReq>>

----------------------------------------------------------------------------
\* The catch block of each route.
catchMessage(route) ==
    CASE route = "createStory" -> "Failed to create story"
      [] route = "assignReviewer" -> "Failed to assign reviewer"
      [] OTHER -> "Failed to update coverage"

\* A repository call of storage.updateCoverage rejects (an I/O error): the
\* catch block responds, and what the call has written stays written.
RepositoryFailure(p) ==
    /\ ~Responding
    /\ pc[p] \in {"select", "insert", "updateStory"}
    /\ Send(p, Json(400, catchMessage(req[p].route)), req[p])
    /\ UNCHANGED <<stories, coverageHistory, nReq, okCoverage>>

\* The first repository call of a handler rejects: nothing was written.
RequestFailure(p, route) ==
    /\ Receive(p)
    /\ Send(p, Json(400, catchMessage(route)), [NoReq EXCEPT !.route = route])
    /\ UNCHANGED <<stories, coverageHistory, okCoverage>>

\* The response has been sent; the handler is free for the next request.
Return(p) ==
    /\ pc[p] = "done"
    /\ pc' = [pc EXCEPT ![p] = "idle"]
    /\ req' = [req EXCEPT ![p] = NoReq]
    /\ res' = [res EXCEPT ![p] = NoRes]
    /\ UNCHANGED <<stories, coverageHistory, nReq, okCoverage>>

----------------------------------------------------------------------------
\* The analytics routes.  Each handler only reads.

\* GET /api/analytics/team
GetTeamAnalytics(p, userId) ==
    /\ Receive(p)
    /\ LET user == getUser(userId)
           locals == [NoReq EXCEPT !.route = "teamAnalytics", !.userId = userId]
       IN  IF user = UndefinedStr \/ ~canViewTeamAnalytics(user)
           THEN Send(p, Json(403, "Not authorized to view team analytics"), locals)
           ELSE Send(p, JsonTeam(getTeamStats), locals)
    /\ UNCHANGED <<stories, coverageHistory, okCoverage>>

\* GET /api/analytics/users
GetUserAnalytics(p, userId) ==
    /\ Receive(p)
    /\ LET user == getUser(userId)
           locals == [NoReq EXCEPT !.route = "userAnalytics", !.userId = userId]
       IN  IF user = UndefinedStr \/ ~canViewTeamAnalytics(user)
           THEN Send(p, Json(403, "Not authorized to view user analytics"), locals)
           ELSE Send(p, JsonUsers(getAllUsersWithStats), locals)
    /\ UNCHANGED <<stories, coverageHistory, okCoverage>>

\* GET /api/analytics/personal: no role check.  For an id without a row the
\* query returns no group and reading the result throws.
GetPersonalAnalytics(p, userId) ==
    /\ Receive(p)
    /\ LET locals == [NoReq EXCEPT !.route = "personalAnalytics", !.userId = userId]
       IN  IF getUser(userId) = UndefinedStr
           THEN Send(p, Json(500, "Failed to fetch personal stats"), locals)
           ELSE Send(p, JsonUsers({getUserStats(userId)}), locals)
    /\ UNCHANGED <<stories, coverageHistory, okCoverage>>

\* GET /api/users
GetUsers(p, userId) ==
    /\ Receive(p)
    /\ LET user == getUser(userId)
           locals == [NoReq EXCEPT !.route = "users", !.userId = userId]
       IN  IF user = UndefinedStr \/ ~canListAllUsers(user)
           THEN Send(p, Json(403, "Not authorized to view users"), locals)
           ELSE Send(p, JsonUsers(getAllUsersWithStats), locals)
    /\ UNCHANGED <<stories, coverageHistory, okCoverage>>

----------------------------------------------------------------------------
\* The listing routes.  Each handler only reads.

\* GET /api/stories
GetStories(p, userId) ==
    /\ Receive(p)
    /\ LET user == getUser(userId)
           locals == [NoReq EXCEPT !.route = "stories", !.userId = userId]
       IN  IF user = UndefinedStr
           THEN Send(p, Json(404, "User not found"), locals)
           ELSE IF user = "manager"
           THEN Send(p, JsonStories(getAllStories), locals)
           ELSE IF user = "reviewer"
           THEN Send(p, JsonStories(getStoriesByReviewer(userId)), locals)
           ELSE Send(p, JsonStories(getStoriesByCreator(userId)), locals)
    /\ UNCHANGED <<stories, coverageHistory, okCoverage>>

\* GET /api/stories/my-reviews: no lookup of the user.
GetMyReviews(p, userId) ==
    /\ Receive(p)
    /\ Send(p, JsonStories(getStoriesByReviewer(userId)),
            [NoReq EXCEPT !.route = "myReviews", !.userId = userId])
    /\ UNCHANGED <<stories, coverageHistory, okCoverage>>

----------------------------------------------------------------------------
\* A handler is free to take a request.
Idle(p) == ~Responding /\ pc[p] = "idle"

\* No handler is busy.
Quiet == \A p \in Procs : pc[p] = "idle"

\* Concurrent requests, no repository failure.
NoFailNext ==
    \/ \E p \in Procs :
           Idle(p) /\ \E userId \in TokenIds, body \in StoryBodies :
                          PostStories(p, userId, body)
    \/ \E p \in Procs :
           Idle(p) /\ \E userId \in TokenIds, storyId \in StoryIdInputs,
                         reviewerId \in ReviewerInputs :
                          PatchReviewer(p, userId, storyId, reviewerId)
    \/ \E p \in Procs :
           Idle(p) /\ \E userId \in TokenIds, storyId \in StoryIdInputs,
                         score \in ScoreInputs, comments \in CommentInputs :
                          PatchCoverage(p, userId, storyId, score, comments)
    \/ \E p \in Procs : UpdateCoverageSelect(p)
    \/ \E p \in Procs : UpdateCoverageInsert(p)
    \/ \E p \in Procs : UpdateCoverageUpdate(p)
    \/ \E p \in Procs : Return(p)

NoFailSpec == Init /\ [][NoFailNext]_vars

\* Concurrent requests; any repository call may fail.
Next ==
    \/ NoFailNext
    \/ \E p \in Procs : RepositoryFailure(p)
    \/ \E p \in Procs :
           Idle(p) /\ \E route \in {"createStory", "assignReviewer", "updateCoverage"} :
                          RequestFailure(p, route)

Spec == Init /\ [][Next]_vars

\* Requests made one after another, no repository failure: a request
\* arrives only when no handler is busy.
SeqNext ==
    \/ \E p \in Procs :
           Quiet /\ \E userId \in TokenIds, body \in StoryBodies :
                        PostStories(p, userId, body)
    \/ \E p \in Procs :
           Quiet /\ \E userId \in TokenIds, storyId \in StoryIdInputs,
                       reviewerId \in ReviewerInputs :
                        PatchReviewer(p, userId, storyId, reviewerId)
    \/ \E p \in Procs :
           Quiet /\ \E userId \in TokenIds, storyId \in StoryIdInputs,
                       score \in ScoreInputs, comments \in CommentInputs :
                        PatchCoverage(p, userId, storyId, score, comments)
    \/ \E p \in Procs : UpdateCoverageSelect(p)
    \/ \E p \in Procs : UpdateCoverageInsert(p)
    \/ \E p \in Procs : UpdateCoverageUpdate(p)
    \/ \E p \in Procs : Return(p)

SeqSpec == Init /\ [][SeqNext]_vars

\* The analytics of a stories table.  Every table of stories created by
\* managers and engineers, with distinct ticket ids, is one that creations
\* produce: a creation's body can carry the status and the score.  The
\* tables here have up to MaxStories stories, each with one of the scores
\* none, 80, 90, 95 and 100.
StatsTicketIds == <<"t1", "t2", "t3", "t4">>

StatsStoryRows ==
    {[NoStory EXCEPT !.title = "T", !.creatorId = c,
                     !.coverageScore = e[1], !.status = e[2]] :
        c \in {u \in DOMAIN users : canCreateStory(users[u])},
        e \in {<<Null, "pending">>, <<Null, "in_review">>, <<8000, "reviewed">>,
               <<9000, "reviewed">>, <<9500, "reviewed">>, <<10000, "pending">>}}

StatsInit ==
    /\ \E n \in 0..MaxStories :
           \E rows \in [1..n -> StatsStoryRows] :
               stories = [i \in 1..n |-> [rows[i] EXCEPT !.ticketId = StatsTicketIds[i]]]
    /\ coverageHistory = <<>>
    /\ pc = [p \in Procs |-> "idle"]
    /\ req = [p \in Procs |-> NoReq]
    /\ res = [p \in Procs |-> NoRes]
    /\ nReq = 0
    /\ okCoverage = [s \in StoryIdInputs |-> 0]

\* No request writes while the analytics are read: the queries of one
\* handler see one table.
StatsNext ==
    \/ \E p \in Procs : Idle(p) /\ \E userId \in TokenIds : GetTeamAnalytics(p, userId)
    \/ \E p \in Procs : Idle(p) /\ \E userId \in TokenIds : GetUserAnalytics(p, userId)
    \/ \E p \in Procs : Idle(p) /\ \E userId \in TokenIds : GetPersonalAnalytics(p, userId)
    \/ \E p \in Procs : Idle(p) /\ \E userId \in TokenIds : GetUsers(p, userId)
    \/ \E p \in Procs : Return(p)

StatsSpec == StatsInit /\ [][StatsNext]_vars

\* The listings of a stories table: up to MaxStories stories, each created
\* by a manager or an engineer and with no reviewer or any user as its
\* reviewer (an assignment does not check the reviewer's role).
ListStoryRows ==
    {[NoStory EXCEPT !.title = "T", !.creatorId = c, !.reviewerId = r,
                     !.status = IF r = NullStr THEN "pending" ELSE "in_review"] :
        c \in {u \in DOMAIN users : canCreateStory(users[u])},
        r \in {NullStr, "r1", "r2", "e1"}}

ListInit ==
    /\ \E n \in 0..MaxStories :
           \E rows \in [1..n -> ListStoryRows] :
               stories = [i \in 1..n |-> [rows[i] EXCEPT !.ticketId = StatsTicketIds[i]]]
    /\ coverageHistory = <<>>
    /\ pc = [p \in Procs |-> "idle"]
    /\ req = [p \in Procs |-> NoReq]
    /\ res = [p \in Procs |-> NoRes]
    /\ nReq = 0
    /\ okCoverage = [s \in StoryIdInputs |-> 0]

ListNext ==
    \/ \E p \in Procs : Idle(p) /\ \E userId \in TokenIds : GetStories(p, userId)
    \/ \E p \in Procs : Idle(p) /\ \E userId \in TokenIds : GetMyReviews(p, userId)
    \/ \E p \in Procs : Return(p)

ListSpec == ListInit /\ [][ListNext]_vars

----------------------------------------------------------------------------
\* Properties

\* The history records of a story, oldest first.
HistoryOf(s) == SelectSeq(coverageHistory, LAMBDA h : h.storyId = s)

\* The position of a status in storyStatusEnum.
Rank(status) == CHOOSE i \in 1..Len(storyStatusEnum) : storyStatusEnum[i] = status

\* A handler of PATCH .../coverage is inside storage.updateCoverage.
InUpdateCoverage(p) == pc[p] \in {"select", "insert", "updateStory"}

Forbidden(message) == Json(403, message)

\* The responses of PATCH .../coverage to a failed precondition.
PreconditionFailures ==
    {Json(404, "User not found"), Json(404, "Story not found"),
     Forbidden("Not authorized to update coverage"),
     Json(400, "Score must be between 0 and 100")}

\* C1: a coverage update that has returned has written both its history
\* record and its story mutation, or neither.
C1_UpdateCoverageAtomic ==
    \A p \in Procs :
        (pc[p] = "done" /\ req[p].route = "updateCoverage")
            => req[p].applied \in {"none", "both"}

\* C2: once no coverage update is in progress, every story and its history
\* are what a serial order of the completed updates produces: each record's
\* previousScore is the newScore of the record before it, and the story's
\* score is the newScore of the last record.
C2_ConcurrentUpdatesSerial ==
    (\A p \in Procs : ~InUpdateCoverage(p)) =>
        \A s \in 1..Len(stories) :
            LET h == HistoryOf(s) IN
            /\ \A i \in 2..Len(h) : h[i].previousScore = h[i - 1].newScore
            /\ Len(h) > 0 => stories[s].coverageScore = h[Len(h)].newScore

\* C3: a coverage request with a failed precondition (user missing, story
\* missing, permission denied, score not a number in [0,100]) never reaches
\* storage.updateCoverage, and the step that answers it with the failure
\* leaves every story and the history unchanged.
C3_PreconditionFailureWritesNothing ==
    [][\A p \in Procs :
        (pc[p] = "idle" /\ req'[p].route = "updateCoverage") =>
            LET u == req'[p].userId
                s == req'[p].storyId
                holds == /\ u \in DOMAIN users
                         /\ s \in 1..Len(stories)
                         /\ \/ users[u] = "manager"
                            \/ users[u] = "reviewer" /\ stories[s].reviewerId = u
                         /\ req'[p].score.t = "number"
                         /\ req'[p].score.v >= 0
                         /\ req'[p].score.v <= 100000
            IN  /\ pc'[p] = "select" => holds
                /\ pc'[p] = "done" =>
                      /\ res'[p] \in PreconditionFailures
                      /\ ~holds \/ res'[p] \in {Json(404, "User not found"),
                                               Json(404, "Story not found"),
                                               Forbidden("Not authorized to update coverage")}
                      /\ req'[p].applied = "none"
                      /\ stories' = stories
                      /\ coverageHistory' = coverageHistory]_vars

\* C3 witness: a coverage request was answered with the score failure while
\* a story exists.
C3_Witness ==
    \E p \in Procs :
        /\ pc[p] = "done" /\ req[p].route = "updateCoverage"
        /\ res[p] = Json(400, "Score must be between 0 and 100")
        /\ req[p].score.v = 101000
        /\ req[p].storyId \in 1..Len(stories)

\* C4: for an existing user and story, the coverage request is answered
\* Forbidden iff the user is not a manager and not the reviewer-role user
\* assigned to the story; an engineer is denied also on a story they created.
C4_CanEditCoverage ==
    [][\A p \in Procs :
        (/\ pc[p] = "idle" /\ req'[p].route = "updateCoverage"
         /\ req'[p].userId \in DOMAIN users
         /\ req'[p].storyId \in 1..Len(stories)) =>
            LET u == req'[p].userId
                story == stories[req'[p].storyId]
                permitted == \/ users[u] = "manager"
                             \/ users[u] = "reviewer" /\ story.reviewerId = u
                denied == /\ pc'[p] = "done"
                          /\ res'[p] = Forbidden("Not authorized to update coverage")
            IN  /\ denied <=> ~permitted
                /\ users[u] = "engineer" => denied]_vars

\* C4 witness: an engineer was denied on a story the engineer created.
C4_Witness ==
    \E p \in Procs :
        /\ pc[p] = "done" /\ req[p].route = "updateCoverage"
        /\ req[p].userId \in DOMAIN users
        /\ users[req[p].userId] = "engineer"
        /\ req[p].storyId \in 1..Len(stories)
        /\ stories[req[p].storyId].creatorId = req[p].userId
        /\ res[p] = Forbidden("Not authorized to update coverage")

\* C5: every write of storage.updateCoverage made for a reviewer-role user
\* is made while that user is the story's reviewer.
C5_UnassignedReviewerNeverApplies ==
    [][\A p \in Procs :
        (/\ pc[p] \in {"insert", "updateStory"}
         /\ pc'[p] # pc[p]
         /\ users[req[p].userId] = "reviewer")
            => stories[req[p].storyId].reviewerId = req[p].userId]_vars

\* C6 as claimed: no step moves a story's status backward.
C6_StatusNeverDemoted ==
    [][\A s \in 1..Len(stories) :
        Rank(stories'[s].status) >= Rank(stories[s].status)]_vars

\* C6 as amended: a story's status moves backward only in the step of a
\* manager's assignReviewer on that story, which leaves it in_review; no
\* step of createStory or updateCoverage demotes a status.
C6_OnlyAssignReviewerDemotes ==
    [][\A s \in 1..Len(stories) :
        Rank(stories'[s].status) < Rank(stories[s].status) =>
            /\ stories'[s].status = "in_review"
            /\ \E p \in Procs :
                /\ pc[p] = "idle" /\ pc'[p] = "done"
                /\ req'[p].route = "assignReviewer"
                /\ req'[p].storyId = s
                /\ users[req'[p].userId] = "manager"]_vars

\* C6 witness: assignReviewer has just put back to in_review a story that a
\* coverage update had completed.
C6_Witness ==
    \E p \in Procs :
        /\ pc[p] = "done" /\ req[p].route = "assignReviewer"
        /\ res[p].status = 200
        /\ req[p].storyId \in 1..Len(stories)
        /\ stories[req[p].storyId].status = "in_review"
        /\ stories[req[p].storyId].dateCompleted # Null
        /\ Len(HistoryOf(req[p].storyId)) > 0

\* C7: the story returned by a successful creation has status pending, no
\* reviewer and no coverage score.
C7_CreatedStoryIsPending ==
    \A p \in Procs :
        (pc[p] = "done" /\ req[p].route = "createStory" /\ res[p].status = 200) =>
            /\ res[p].story.status = "pending"
            /\ res[p].story.reviewerId = NullStr
            /\ res[p].story.coverageScore = Null

\* C8: a creation request is answered "Not authorized to create stories"
\* (403) iff the acting user is not a manager or an engineer, and then the
\* stories are unchanged; a reviewer is always answered so.
C8_CanCreateStory ==
    [][\A p \in Procs :
        (pc[p] = "idle" /\ req'[p].route = "createStory") =>
            LET u == req'[p].userId
                allowed == u \in DOMAIN users /\ users[u] \in {"manager", "engineer"}
                denied == /\ pc'[p] = "done"
                          /\ res'[p] = Forbidden("Not authorized to create stories")
            IN  /\ denied <=> ~allowed
                /\ ~allowed => stories' = stories /\ req'[p].applied = "none"]_vars

\* C8 witness: a reviewer's creation request was denied while a story that
\* a manager or engineer created exists.
C8_Witness ==
    \E p \in Procs :
        /\ pc[p] = "done" /\ req[p].route = "createStory"
        /\ req[p].userId \in DOMAIN users
        /\ users[req[p].userId] = "reviewer"
        /\ res[p] = Forbidden("Not authorized to create stories")
        /\ Len(stories) > 0

\* C9: assignReviewer is answered 200 only for a manager; any other acting
\* user is answered "Not authorized to assign reviewers" (403) with the
\* stories unchanged; a manager's assignment of a given reviewerId to an
\* existing story leaves the story with that reviewerId and status in_review.
C9_AssignReviewer ==
    [][\A p \in Procs :
        (pc[p] = "idle" /\ req'[p].route = "assignReviewer") =>
            LET u == req'[p].userId
                s == req'[p].storyId
                manager == u \in DOMAIN users /\ users[u] = "manager"
            IN  /\ res'[p].status = 200 => manager
                /\ ~manager =>
                      /\ res'[p] = Forbidden("Not authorized to assign reviewers")
                      /\ stories' = stories
                /\ (/\ res'[p].status = 200
                    /\ s \in 1..Len(stories)
                    /\ req'[p].reviewerId # UndefinedStr) =>
                      /\ stories'[s].reviewerId = req'[p].reviewerId
                      /\ stories'[s].status = "in_review"
                      /\ res'[p].story = stories'[s]]_vars

\* C9 witness: a manager has just assigned r2 to a story that was not
\* r2's, and the story is in_review.
C9_Witness ==
    \E p \in Procs :
        /\ pc[p] = "done" /\ req[p].route = "assignReviewer"
        /\ req[p].userId \in DOMAIN users
        /\ users[req[p].userId] = "manager"
        /\ res[p].status = 200
        /\ req[p].reviewerId = "r2"
        /\ req[p].storyId \in 1..Len(stories)
        /\ stories[req[p].storyId].reviewerId = "r2"
        /\ stories[req[p].storyId].status = "in_review"

\* C10: with the requests made one after another, a story has as many
\* history records as there were successful coverage updates of it, each
\* record after the first has the newScore of the record before it as its
\* previousScore, the record written for a story that has no score has
\* previousScore null, and no record is changed afterwards.
C10_SequentialHistoryChain ==
    /\ [](\A s \in 1..Len(stories) :
            LET h == HistoryOf(s) IN
            /\ (\A p \in Procs : ~InUpdateCoverage(p)) => Len(h) = okCoverage[s]
            /\ \A i \in 2..Len(h) : h[i].previousScore = h[i - 1].newScore)
    /\ [][/\ \A i \in 1..Len(coverageHistory) :
                /\ Len(coverageHistory') >= i
                /\ coverageHistory'[i] = coverageHistory[i]
          /\ \A p \in Procs :
                (/\ pc[p] = "insert" /\ pc'[p] = "updateStory"
                 /\ stories[req[p].storyId].coverageScore = Null)
                    => coverageHistory'[Len(coverageHistory')].previousScore = Null]_vars

\* C10 witness: two successful updates of a story that started with no
\* score, the first to 0: two records, null -> 0 and 0 -> 100.
C10_Witness ==
    \E s \in 1..Len(stories) :
        LET h == HistoryOf(s) IN
        /\ \A p \in Procs : pc[p] = "idle"
        /\ okCoverage[s] = 2
        /\ Len(h) = 2
        /\ h[1].previousScore = Null /\ h[1].newScore = 0
        /\ h[2].previousScore = 0 /\ h[2].newScore = 10000

\* C11: coverage history is append-only: every record that exists is still
\* there, at its place and with every field unchanged, after any step, so
\* the records of a story only grow.
C11_HistoryAppendOnly ==
    [][/\ Len(coverageHistory') >= Len(coverageHistory)
       /\ \A i \in 1..Len(coverageHistory) : coverageHistory'[i] = coverageHistory[i]
       /\ \A s \in 1..Len(stories) :
             Len(SelectSeq(coverageHistory', LAMBDA h : h.storyId = s))
                 >= Len(HistoryOf(s))]_vars

\* C11 witness: a second record of a story has just been inserted, with a
\* newScore other than the first record's, and the first record is there.
C11_Witness ==
    \E p \in Procs :
        /\ pc[p] = "updateStory"
        /\ LET h == HistoryOf(req[p].storyId) IN
           /\ Len(h) = 2
           /\ h[1].newScore # h[2].newScore

\* C12: a coverage update whose score is not a number in [0,100] fails and
\* writes no history record: only a numeric score in [0,100] is ever inside
\* storage.updateCoverage, in a history record or in a 200 response.  For an
\* existing user permitted on an existing story the request is answered
\* "Score must be between 0 and 100" (400) iff the score is not a number in
\* [0,100], with both tables unchanged; the scores 0 and 100 are accepted.
C12_InvalidScoreRejected ==
    /\ [](/\ \A p \in Procs :
               (\/ InUpdateCoverage(p)
                \/ pc[p] = "done" /\ req[p].route = "updateCoverage"
                                  /\ res[p].status = 200)
                   => /\ req[p].score.t = "number"
                      /\ req[p].score.v >= 0 /\ req[p].score.v <= 100000
           /\ \A i \in 1..Len(coverageHistory) :
               coverageHistory[i].newScore >= 0 /\ coverageHistory[i].newScore <= 10000)
    /\ [][\A p \in Procs :
            (pc[p] = "idle" /\ req'[p].route = "updateCoverage") =>
                LET u == req'[p].userId
                    s == req'[p].storyId
                    score == req'[p].score
                    permitted == /\ u \in DOMAIN users
                                 /\ s \in 1..Len(stories)
                                 /\ \/ users[u] = "manager"
                                    \/ users[u] = "reviewer" /\ stories[s].reviewerId = u
                    inRange == score.t = "number" /\ score.v >= 0 /\ score.v <= 100000
                    rejected == /\ pc'[p] = "done"
                                /\ res'[p] = Json(400, "Score must be between 0 and 100")
                IN  /\ rejected => /\ ~inRange
                                   /\ stories' = stories
                                   /\ coverageHistory' = coverageHistory
                    /\ permitted => (rejected <=> ~inRange)
                    /\ (permitted /\ score.t = "number" /\ score.v \in {0, 100000})
                          => pc'[p] = "select"]_vars

\* C12 witness: the score -1 has just been rejected on a story whose one
\* history record was written by an update with the score 100.
C12_Witness ==
    \E p \in Procs :
        /\ pc[p] = "done" /\ req[p].route = "updateCoverage"
        /\ res[p] = Json(400, "Score must be between 0 and 100")
        /\ req[p].score = [t |-> "number", v |-> -1000]
        /\ req[p].storyId \in 1..Len(stories)
        /\ Len(HistoryOf(req[p].storyId)) = 1
        /\ HistoryOf(req[p].storyId)[1].newScore = 10000

\* C13: the step in which a coverage update succeeds leaves the story's
\* comments as they were when the request carried no comments, and sets
\* them to the request's comments when it carried some.
C13_AbsentCommentsKept ==
    [][\A p \in Procs :
        (pc[p] = "updateStory" /\ pc'[p] = "done" /\ res'[p].status = 200) =>
            LET s == req[p].storyId IN
            /\ req[p].comments = UndefinedStr =>
                  /\ stories'[s].comments = stories[s].comments
                  /\ res'[p].story.comments = stories[s].comments
            /\ req[p].comments # UndefinedStr =>
                  stories'[s].comments = req[p].comments]_vars

\* C13 witness: a story commented by a first update has just been updated
\* by a request without comments (its history record has none) and still
\* has the first update's comments.
C13_Witness ==
    \E p \in Procs :
        /\ pc[p] = "done" /\ req[p].route = "updateCoverage" /\ res[p].status = 200
        /\ \A q \in Procs \ {p} : pc[q] = "idle"
        /\ LET h == HistoryOf(req[p].storyId) IN
           /\ Len(h) = 2
           /\ h[1].comments = "c1"
           /\ h[2].comments = NullStr
           /\ stories[req[p].storyId].comments = "c1"
           /\ res[p].story.comments = "c1"

\* C14: when a coverage update has succeeded, the story has status
\* reviewed and, to the two decimal places of the column, the request's
\* score as its coverageScore, and is the story of the response; this for
\* a score below 90 as for one of at least 90.
C14_UpdatedStoryIsReviewed ==
    \A p \in Procs :
        (pc[p] = "done" /\ req[p].route = "updateCoverage" /\ res[p].status = 200) =>
            LET story == stories[req[p].storyId] IN
            /\ story.status = "reviewed"
            /\ story.coverageScore * 10 - req[p].score.v \in -5..5
            /\ res[p].story = story

\* C14 witness: an update with the score 0 has succeeded on a story that a
\* manager had put in_review; the story is reviewed with the score 0.
C14_Witness ==
    \E p \in Procs :
        /\ pc[p] = "done" /\ req[p].route = "updateCoverage" /\ res[p].status = 200
        /\ req[p].score.v = 0
        /\ stories[req[p].storyId].reviewerId = "r2"
        /\ stories[req[p].storyId].status = "reviewed"
        /\ stories[req[p].storyId].coverageScore = 0

\* The stories a user created, and those of a set that have a score.
CreatedBy(userId) == {i \in 1..Len(stories) : stories[i].creatorId = userId}

Scored(S) == {i \in S : stories[i].coverageScore # Null}

RECURSIVE ScoreSum(_)
ScoreSum(S) ==
    IF S = {} THEN 0
    ELSE LET i == CHOOSE j \in S : TRUE
         IN  stories[i].coverageScore + ScoreSum(S \ {i})

\* The users of a response that returns users with statistics.
StatsUsers(p) == {user.id : user \in res[p].users}

\* C15: the statistics returned for a user have totalStories the number of
\* stories the user created; averageCoverage the mean (to the digits of an
\* average) of the scores of those that have one, and 0 when none has;
\* status pass iff averageCoverage >= 90, which is iff that mean is >= 90.
\* A user without stories has 0, 0 and fail.  The personal route returns
\* the acting user's statistics, the other routes those of every user.
C15_UserStats ==
    \A p \in Procs :
        (/\ pc[p] = "done" /\ res[p].status = 200
         /\ req[p].route \in {"personalAnalytics", "userAnalytics", "users"}) =>
            /\ StatsUsers(p) = IF req[p].route = "personalAnalytics"
                               THEN {req[p].userId} ELSE DOMAIN users
            /\ Cardinality(res[p].users) = Cardinality(StatsUsers(p))
            /\ \A user \in res[p].users :
                LET mine == CreatedBy(user.id)
                    n == Cardinality(Scored(mine))
                    sum == ScoreSum(Scored(mine))
                IN  /\ user.totalStories = Cardinality(mine)
                    /\ n = 0 => user.averageCoverage = 0
                    /\ n > 0 => /\ 2 * (user.averageCoverage * n - 100 * sum) <= n
                                /\ 2 * (100 * sum - user.averageCoverage * n) <= n
                    /\ user.status \in {"pass", "fail"}
                    /\ user.status = "pass" <=> user.averageCoverage >= 900000
                    /\ user.status = "pass" <=> (n > 0 /\ sum >= 9000 * n)
                    /\ mine = {} => /\ user.totalStories = 0
                                    /\ user.averageCoverage = 0
                                    /\ user.status = "fail"

\* C15 witness: the personal statistics of an engineer who created a story
\* with the score 95 and one without a score: 2 stories, average 95, pass.
C15_Witness ==
    \E p \in Procs :
        /\ pc[p] = "done" /\ req[p].route = "personalAnalytics"
        /\ req[p].userId = "e1"
        /\ \E i, j \in CreatedBy("e1") :
              stories[i].coverageScore = 9500 /\ stories[j].coverageScore = Null
        /\ res[p].users = {[id |-> "e1", role |-> "engineer", totalStories |-> 2,
                            averageCoverage |-> 950000, status |-> "pass"]}

\* C16: usersBelow90 of the team statistics is the number of users, of any
\* role, the mean of whose stories' scores is below 90, a user with no
\* scored story (average 0) being one of them.
C16_UsersBelow90 ==
    \A p \in Procs :
        (pc[p] = "done" /\ req[p].route = "teamAnalytics" /\ res[p].status = 200) =>
            res[p].team.usersBelow90 =
                Cardinality({u \in DOMAIN users :
                    LET n == Cardinality(Scored(CreatedBy(u)))
                        sum == ScoreSum(Scored(CreatedBy(u)))
                    IN  n = 0 \/ sum < 9000 * n})

\* C16 witness: the users' averages are 95, 80 and, for the two users
\* without stories, 0: usersBelow90 counts the 80 and both zeros.
C16_Witness ==
    \E p \in Procs :
        /\ pc[p] = "done" /\ req[p].route = "teamAnalytics" /\ res[p].status = 200
        /\ Len(stories) = 2
        /\ \E i \in CreatedBy("m1") : stories[i].coverageScore = 9500
        /\ \E i \in CreatedBy("e1") : stories[i].coverageScore = 8000
        /\ CreatedBy("r1") = {} /\ CreatedBy("r2") = {}
        /\ res[p].team.usersBelow90 = 3

\* C17: pendingReviews of the team statistics is the number of stories
\* whose status is pending, with or without a score, and totalStories is
\* the number of stories.
C17_PendingReviews ==
    \A p \in Procs :
        (pc[p] = "done" /\ req[p].route = "teamAnalytics" /\ res[p].status = 200) =>
            /\ res[p].team.pendingReviews =
                   Cardinality({i \in 1..Len(stories) : stories[i].status = "pending"})
            /\ res[p].team.totalStories = Len(stories)

\* C17 witness: of a pending story that has a score and a story in_review
\* that has none, one is counted.
C17_Witness ==
    \E p \in Procs :
        /\ pc[p] = "done" /\ req[p].route = "teamAnalytics" /\ res[p].status = 200
        /\ Len(stories) = 2
        /\ stories[1].status = "pending" /\ stories[1].coverageScore # Null
        /\ stories[2].status = "in_review" /\ stories[2].coverageScore = Null
        /\ res[p].team.pendingReviews = 1
        /\ res[p].team.totalStories = 2

\* C18: the team analytics, the analytics of all users and the list of
\* users are answered 200, with the statistics, iff the acting user is a
\* manager; any other acting user is answered 403 with the route's "Not
\* authorized" message and neither statistics nor users.
C18_ManagerOnlyAnalytics ==
    \A p \in Procs :
        (pc[p] = "done" /\ req[p].route \in {"teamAnalytics", "userAnalytics", "users"}) =>
            LET u == req[p].userId
                manager == u \in DOMAIN users /\ users[u] = "manager"
                message == CASE req[p].route = "teamAnalytics" ->
                                    "Not authorized to view team analytics"
                             [] req[p].route = "userAnalytics" ->
                                    "Not authorized to view user analytics"
                             [] OTHER -> "Not authorized to view users"
            IN  /\ res[p].status = 200 <=> manager
                /\ manager => IF req[p].route = "teamAnalytics"
                              THEN res[p].team # NoTeam /\ res[p].users = {}
                              ELSE res[p].team = NoTeam /\ StatsUsers(p) = DOMAIN users
                /\ ~manager => /\ res[p] = Forbidden(message)
                               /\ res[p].team = NoTeam
                               /\ res[p].users = {}

\* C18 witness: an engineer who created a story was denied the team
\* analytics.
C18_Witness ==
    \E p \in Procs :
        /\ pc[p] = "done" /\ req[p].route = "teamAnalytics"
        /\ req[p].userId = "e1"
        /\ CreatedBy("e1") # {}
        /\ res[p] = Forbidden("Not authorized to view team analytics")

\* C19: an assignReviewer by a manager, or an updateCoverage by an existing
\* user, that names a story id without a row is answered "Story not found"
\* (404).
C19_MissingStoryIsNotFound ==
    \A p \in Procs :
        (/\ pc[p] = "done"
         /\ req[p].storyId \notin 1..Len(stories)
         /\ req[p].userId \in DOMAIN users
         /\ \/ req[p].route = "updateCoverage"
            \/ req[p].route = "assignReviewer" /\ users[req[p].userId] = "manager")
            => res[p].status = 404

\* C20: once a story has a completion timestamp, no step changes it.
C20_DateCompletedSetOnce ==
    [][\A s \in 1..Len(stories) :
        stories[s].dateCompleted # Null
            => stories'[s].dateCompleted = stories[s].dateCompleted]_vars

\* C21: the reviewerId of an existing story changes only in the step of an
\* assignReviewer on that story by a manager; no step of updateCoverage,
\* and no request of an engineer or reviewer, changes it.
C21_ReviewerChangedByManagerOnly ==
    [][\A s \in 1..Len(stories) :
        stories'[s].reviewerId # stories[s].reviewerId =>
            \E p \in Procs :
                /\ pc[p] = "idle" /\ pc'[p] = "done"
                /\ req'[p].route = "assignReviewer"
                /\ req'[p].storyId = s
                /\ req'[p].userId \in DOMAIN users
                /\ users[req'[p].userId] = "manager"
                /\ res'[p].status = 200]_vars

\* C21 witness: the reviewer a manager assigned has updated the coverage
\* and is still the story's reviewer.
C21_Witness ==
    \E p \in Procs :
        /\ pc[p] = "done" /\ req[p].route = "updateCoverage" /\ res[p].status = 200
        /\ req[p].userId = "r2"
        /\ stories[req[p].storyId].reviewerId = "r2"
        /\ Len(HistoryOf(req[p].storyId)) = 1

\* The ticket ids of the stories.
TicketsUsed == {stories[i].ticketId : i \in 1..Len(stories)}

\* C22: no two stories share a ticket id.  A creation that succeeds adds
\* one story, whose ticket id no story had; a creation by a manager or an
\* engineer with a ticket id that a story has is answered "Failed to create
\* story" (400) and leaves the stories unchanged.  Creations of concurrent
\* requests are inserts of one table with the unique constraint.
C22_TicketIdUnique ==
    /\ [](\A i, j \in 1..Len(stories) :
             stories[i].ticketId = stories[j].ticketId => i = j)
    /\ [][\A p \in Procs :
            (pc[p] = "idle" /\ req'[p].route = "createStory") =>
                /\ res'[p].status = 200 =>
                      /\ res'[p].story.ticketId \notin TicketsUsed
                      /\ stories' = Append(stories, res'[p].story)
                /\ res'[p].status # 200 => stories' = stories
                /\ req'[p].storyData.ticketId \in TicketsUsed =>
                      /\ res'[p] = Json(400, "Failed to create story")
                      /\ stories' = stories]_vars

\* C22 witness: an engineer's creation with the ticket id of an existing
\* story has just failed, while another request is in progress.
C22_Witness ==
    \E p \in Procs :
        /\ pc[p] = "done" /\ req[p].route = "createStory"
        /\ req[p].userId = "e1"
        /\ req[p].storyData.ticketId \in TicketsUsed
        /\ res[p] = Json(400, "Failed to create story")
        /\ \E q \in Procs : InUpdateCoverage(q)

\* C23: the story a creation adds has the acting user as its creatorId,
\* whatever creatorId the body carries, and no step changes the creatorId
\* or the ticketId of an existing story.
C23_CreatorAndTicketFixed ==
    [][/\ Len(stories') >= Len(stories)
       /\ \A s \in 1..Len(stories) :
             /\ stories'[s].creatorId = stories[s].creatorId
             /\ stories'[s].ticketId = stories[s].ticketId
       /\ \A p \in Procs :
             (/\ pc[p] = "idle" /\ req'[p].route = "createStory"
              /\ res'[p].status = 200) =>
                 /\ Len(stories') = Len(stories) + 1
                 /\ stories'[Len(stories')].creatorId = req'[p].userId
                 /\ res'[p].story.creatorId = req'[p].userId]_vars

\* C23 witness: an engineer has created a story with the body that names a
\* reviewer-role user as creator, and a later assignment and coverage update
\* have left the engineer as the creator.
C23_Witness ==
    \E s \in 1..Len(stories) :
        /\ stories[s].creatorId = "e1"
        /\ stories[s].reviewerId = "r2"
        /\ stories[s].coverageScore = 0
        /\ Len(HistoryOf(s)) = 1
        /\ HistoryOf(s)[1].previousScore = 10000

\* C24: every coverage request that is denied is answered with the same
\* response, status 403 and "Not authorized to update coverage", whether
\* the user is denied by role (an engineer) or by not being the story's
\* reviewer (a reviewer): the response tells the two apart by nothing.
C24_UniformForbidden ==
    \A p \in Procs :
        (pc[p] = "done" /\ req[p].route = "updateCoverage" /\ res[p].status = 403) =>
            /\ users[req[p].userId] \in {"engineer", "reviewer"}
            /\ users[req[p].userId] = "reviewer" =>
                  stories[req[p].storyId].reviewerId # req[p].userId
            /\ res[p] = Forbidden("Not authorized to update coverage")

\* C24 witness: a reviewer has been denied on a story that has another
\* reviewer.
C24_Witness ==
    \E p \in Procs :
        /\ pc[p] = "done" /\ req[p].route = "updateCoverage"
        /\ req[p].userId = "r2"
        /\ req[p].storyId \in 1..Len(stories)
        /\ stories[req[p].storyId].reviewerId = "r1"
        /\ res[p] = Forbidden("Not authorized to update coverage")

\* C25: with the requests made one after another, the record an update
\* inserts has previousScore null iff the story has no score at that time,
\* and otherwise the story's score, a score of 0 included.
C25_PreviousScoreNullIffUnscored ==
    [][\A p \in Procs :
        (pc[p] = "insert" /\ pc'[p] = "updateStory") =>
            LET record == coverageHistory'[Len(coverageHistory')]
                prior == stories[req[p].storyId].coverageScore
            IN  /\ Len(coverageHistory') = Len(coverageHistory) + 1
                /\ record.storyId = req[p].storyId
                /\ record.previousScore = Null <=> prior = Null
                /\ prior # Null => record.previousScore = prior]_vars

\* C25 witness: the record of an update of a story whose score is 0 has
\* just been inserted with previousScore 0, after a first record with
\* previousScore null.
C25_Witness ==
    \E p \in Procs :
        /\ pc[p] = "updateStory"
        /\ stories[req[p].storyId].coverageScore = 0
        /\ LET h == HistoryOf(req[p].storyId) IN
           /\ Len(h) = 2
           /\ h[1].previousScore = Null
           /\ h[2].previousScore = 0

\* C26: a coverage request of an existing user is checked for the story,
\* then for the permission, then for the score, and writes nothing while it
\* is checked: on a missing story it is answered "Story not found" (404)
\* whatever the user's role; on an existing story a user who is not
\* permitted is answered Forbidden, whatever the score; the score failure is
\* answered only to a permitted user.  The history record is inserted in a
\* step that leaves the stories unchanged, before the step that updates the
\* story.
C26_CheckOrder ==
    [][\A p \in Procs :
        /\ (/\ pc[p] = "idle" /\ req'[p].route = "updateCoverage"
            /\ req'[p].userId \in DOMAIN users) =>
               LET u == req'[p].userId
                   s == req'[p].storyId
                   permitted == \/ users[u] = "manager"
                                \/ users[u] = "reviewer" /\ stories[s].reviewerId = u
               IN  /\ stories' = stories /\ coverageHistory' = coverageHistory
                   /\ s \notin 1..Len(stories) =>
                         res'[p] = Json(404, "Story not found")
                   /\ (s \in 1..Len(stories) /\ ~permitted) =>
                         res'[p] = Forbidden("Not authorized to update coverage")
                   /\ res'[p] = Json(400, "Score must be between 0 and 100") =>
                         s \in 1..Len(stories) /\ permitted
        /\ (pc[p] = "insert" /\ pc'[p] # "insert") =>
               /\ stories' = stories
               /\ req[p].applied = "none"
               /\ pc'[p] = "updateStory" =>
                     Len(coverageHistory') = Len(coverageHistory) + 1
        /\ (pc[p] = "updateStory" /\ pc'[p] # "updateStory") =>
               /\ coverageHistory' = coverageHistory
               /\ \E i \in 1..Len(coverageHistory) :
                     /\ coverageHistory[i].storyId = req[p].storyId
                     /\ coverageHistory[i].updatedById = req[p].userId
                     /\ coverageHistory[i].newScore = stories'[req[p].storyId].coverageScore]_vars

\* C26 witness: an engineer, whom the permission check would deny, has been
\* answered "Story not found" on a story id without a row, while stories
\* exist.
C26_Witness ==
    \E p \in Procs :
        /\ pc[p] = "done" /\ req[p].route = "updateCoverage"
        /\ req[p].userId = "e1"
        /\ Len(stories) = 1
        /\ req[p].storyId = 2
        /\ res[p] = Json(404, "Story not found")

\* C27: every story whose status is in_review has a reviewer.
C27_InReviewHasReviewer ==
    \A s \in 1..Len(stories) :
        stories[s].status = "in_review" => stories[s].reviewerId # NullStr

C29_StoryListing ==
    \A p \in Procs :
        (pc[p] = "done" /\ req[p].route \in {"stories", "myReviews"}) =>
            LET u == req[p].userId
                all == 1..Len(stories)
                created == {i \in all : stories[i].creatorId = u}
                reviewed == {i \in all : stories[i].reviewerId = u}
                role == IF u \in DOMAIN users THEN users[u] ELSE "none"
            IN  /\ res[p].list \subseteq all
                /\ (req[p].route = "stories" /\ role # "none") =>
                      /\ res[p].status = 200
                      /\ res[p].list = CASE role = "manager" -> all
                                          [] role = "reviewer" -> reviewed
                                          [] OTHER -> created
                /\ (req[p].route = "stories" /\ role = "none") =>
                      res[p] = Json(404, "User not found")
                /\ req[p].route = "myReviews" =>
                      res[p].status = 200 /\ res[p].list = reviewed
                /\ role # "manager" => res[p].list \subseteq created \cup reviewed

\* C29 witness: a reviewer has listed the stories and received the one
\* story the reviewer is assigned to, not the story of the other reviewer.
C29_Witness ==
    \E p \in Procs :
        /\ pc[p] = "done" /\ req[p].route = "stories"
        /\ req[p].userId = "r1"
        /\ Len(stories) = 2
        /\ stories[1].reviewerId = "r2"
        /\ stories[2].reviewerId = "r1"
        /\ res[p].list = {2}

\* C30: the step of a successful assignReviewer on an existing story
\* leaves the story's coverageScore, comments, dateCompleted, creatorId,
\* ticketId and title, every other story and the coverage history as they
\* were.
C30_AssignReviewerFrame ==
    [][\A p \in Procs :
        (/\ pc[p] = "idle" /\ req'[p].route = "assignReviewer"
         /\ res'[p].status = 200
         /\ req'[p].storyId \in 1..Len(stories)) =>
            LET s == req'[p].storyId IN
            /\ Len(stories') = Len(stories)
            /\ \A t \in 1..Len(stories) : t # s => stories'[t] = stories[t]
            /\ stories'[s].coverageScore = stories[s].coverageScore
            /\ stories'[s].comments = stories[s].comments
            /\ stories'[s].dateCompleted = stories[s].dateCompleted
            /\ stories'[s].creatorId = stories[s].creatorId
            /\ stories'[s].ticketId = stories[s].ticketId
            /\ stories'[s].title = stories[s].title
            /\ coverageHistory' = coverageHistory]_vars

\* C30 witness: a reviewer has just been assigned to a story that a
\* coverage update had completed with a score and comments; the story has
\* them still.
C30_Witness ==
    \E p \in Procs :
        /\ pc[p] = "done" /\ req[p].route = "assignReviewer" /\ res[p].status = 200
        /\ req[p].reviewerId = "r1"
        /\ req[p].storyId \in 1..Len(stories)
        /\ LET story == stories[req[p].storyId] IN
           /\ story.reviewerId = "r1"
           /\ story.coverageScore = 0
           /\ story.comments = "c1"
           /\ story.dateCompleted # Null

====
